---- MODULE Spec2Model ----
(***************************************************************************)
(* Model of the audio codec pipeline (services/audioUtils.ts), the speech  *)
(* client (services/geminiService.ts) and the App component's generate     *)
(* handler.                                                                *)
(*                                                                         *)
(* Numbers.  A JavaScript float f is modelled by the integer f * One, so   *)
(* the model covers the floats that are multiples of 1/One = 1/32768;      *)
(* every value the PCM converter produces is one of them, and every        *)
(* product and sum the encoders form on them is exact in double precision. *)
(* Byte buffers, typed arrays and channel data are sequences; the element  *)
(* at JavaScript index i is s[i + 1].                                      *)
(***************************************************************************)
EXTENDS Integers, Sequences, FiniteSets, TLC

VARIABLES
  \* codec harness: one pure function applied per step
  input,        \* what the harness was given: raw PCM bytes or a SampleBuffer
  pcmRes,       \* outcome of pcmToAudioBuffer
  wavRes,       \* outcome of audioBufferToWav
  mp3Res,       \* outcome of audioBufferToMp3
  \* application (App component)
  env,              \* API_KEY present?  lamejs loaded?
  isGenerating, wavUrl, mp3Url, error,      \* React state
  previewState, previewAudioRef,
  gen,              \* the handleGenerate run: its phase and what it did
  previews,         \* the handlePreviewVoice runs: voice, phase, audio, stopped
  audios,           \* the Audio elements created by previews
  urls              \* the object URLs created: url -> blob type, revoked

codecVars == <<input, pcmRes, wavRes, mp3Res>>
appVars == <<env, isGenerating, wavUrl, mp3Url, error, previewState,
             previewAudioRef, gen, previews, audios, urls>>
vars == <<codecVars, appVars>>

----------------------------------------------------------------------------
(* Bounds of the model *)

\* raw PCM inputs are all byte strings of at most this length
MaxRawLen == 4
\* directly supplied SampleBuffers have at most this many frames, all values
MaxFrames == 2
\* long buffers have up to MaxBlocks full MP3 blocks, plus or minus a sample
MaxBlocks == 1
\* handleGenerate runs and handlePreviewVoice requests per behaviour
MaxRuns == 2
MaxPreviews == 2

----------------------------------------------------------------------------
(* Program constants *)

\* the float 1.0 (model unit: floats are counted in 1/One)
One == 32768
PcmDivisor == 32768
WavHeaderLength == 44
WavNegScale == 32768
WavPosScale == 32767
Mp3NegScale == 32768
Mp3PosScale == 32767
blockSize == 1152
kbps == 128
TtsSampleRate == 24000
RIFF == 1179011410
WAVE == 1163280727
FMT == 544501094
DATA == 1635017060

----------------------------------------------------------------------------
(* JavaScript number conversions *)

Min(a, b) == IF a < b THEN a ELSE b
Max(a, b) == IF a > b THEN a ELSE b

\* the integer part of a / b, b > 0 (truncation toward zero)
TruncDiv(a, b) == IF a >= 0 THEN a \div b ELSE -((-a) \div b)

\* ToInt32 (the | 0 operator): an integer of the signed 32-bit range is kept
\* as it is, and every integer of the model lies in that range
ToInt32(x) == x
\* ToInt16 (a store into an Int16Array, or setInt16): wraps modulo 2^16
ToInt16(x) == ((x + 32768) % 65536) - 32768

\* byte k of the little-endian representation of v, 0 <= v < 2^31
LEByte(v, k) ==
  CASE k = 0 -> v % 256
    [] k = 1 -> (v \div 256) % 256
    [] k = 2 -> (v \div 65536) % 256
    [] k = 3 -> (v \div 16777216) % 256

\* the sequence of the elements of f (held as values, not as the expression)
AsSeq(f) == f \o <<>>

\* readers of a byte sequence at a JavaScript offset
Uint16At(bytes, off) == bytes[off + 1] + 256 * bytes[off + 2]
Int16At(bytes, off) == ToInt16(Uint16At(bytes, off))
Uint32At(bytes, off) ==
  bytes[off + 1] + 256 * bytes[off + 2] + 65536 * bytes[off + 3]
    + 16777216 * bytes[off + 4]

----------------------------------------------------------------------------
(* AudioBuffer *)

NoBuffer == [numberOfChannels |-> 0, sampleRate |-> 0, length |-> 0,
             channels |-> <<>>]

\* ctx.createBuffer(numberOfChannels, length, sampleRate) followed by
\* copyToChannel: Web Audio rejects a zero length with NotSupportedError
createBuffer(numberOfChannels, float32, sampleRate) ==
  IF Len(float32) = 0
  THEN [ok |-> FALSE, err |-> "NotSupportedError", buffer |-> NoBuffer]
  ELSE [ok |-> TRUE, err |-> "",
        buffer |-> [numberOfChannels |-> numberOfChannels,
                    sampleRate |-> sampleRate,
                    length |-> Len(float32),
                    channels |-> AsSeq([c \in 1..numberOfChannels |-> float32])]]

\* new Int16Array(buffer): a byte length that is no multiple of 2 is a
\* RangeError; elements are read in platform (little-endian) byte order
Int16ArrayOf(buffer) ==
  AsSeq([i \in 1..(Len(buffer) \div 2) |-> Int16At(buffer, 2 * (i - 1))])

\* pcm16[i] / 32768.0, stored in a Float32Array (exact)
PcmToFloat(s) == (s * One) \div PcmDivisor

\* a faulty pcmToAudioBuffer: a trailing odd byte is dropped
pcmToAudioBufferTruncating(buffer, sampleRate) ==
  LET pcm16 == Int16ArrayOf(buffer)
      float32 == AsSeq([i \in 1..Len(pcm16) |-> PcmToFloat(pcm16[i])])
  IN  createBuffer(1, float32, sampleRate)

pcmToAudioBuffer(buffer, sampleRate) ==
  IF Len(buffer) % 2 # 0
  THEN [ok |-> FALSE, err |-> "RangeError", buffer |-> NoBuffer]
  ELSE LET pcm16 == Int16ArrayOf(buffer)
           float32 == AsSeq([i \in 1..Len(pcm16) |-> PcmToFloat(pcm16[i])])
       IN  createBuffer(1, float32, sampleRate)

----------------------------------------------------------------------------
(* audioBufferToWav *)

\* new ArrayBuffer(length): length zero bytes
NewView(length) == AsSeq([b \in 1..length |-> 0])

\* a faulty setUint16: the bytes in big-endian order (littleEndian = false)
setUint16BigEndian(st, data) ==
  [st EXCEPT !.view = [st.view EXCEPT ![st.pos + 1] = LEByte(data % 65536, 1),
                                      ![st.pos + 2] = LEByte(data % 65536, 0)],
             !.pos = st.pos + 2]

\* view.setUint16(pos, data, true); pos += 2
setUint16(st, data) ==
  [st EXCEPT !.view = [st.view EXCEPT ![st.pos + 1] = LEByte(data % 65536, 0),
                                      ![st.pos + 2] = LEByte(data % 65536, 1)],
             !.pos = st.pos + 2]

\* a faulty setUint32: the bytes in big-endian order (littleEndian = false)
setUint32BigEndian(st, data) ==
  [st EXCEPT !.view = [st.view EXCEPT ![st.pos + 1] = LEByte(data, 3),
                                      ![st.pos + 2] = LEByte(data, 2),
                                      ![st.pos + 3] = LEByte(data, 1),
                                      ![st.pos + 4] = LEByte(data, 0)],
             !.pos = st.pos + 4]

\* view.setUint32(pos, data, true); pos += 4
setUint32(st, data) ==
  [st EXCEPT !.view = [st.view EXCEPT ![st.pos + 1] = LEByte(data, 0),
                                      ![st.pos + 2] = LEByte(data, 1),
                                      ![st.pos + 3] = LEByte(data, 2),
                                      ![st.pos + 4] = LEByte(data, 3)],
             !.pos = st.pos + 4]

\* view.setInt16(off, sample, true)
setInt16(view, off, sample) ==
  [view EXCEPT ![off + 1] = LEByte(ToInt16(sample) % 65536, 0),
               ![off + 2] = LEByte(ToInt16(sample) % 65536, 1)]

\* the header writes, in order, through the shared cursor pos
WavHeader(buffer, length, st) ==
  LET numOfChan == buffer.numberOfChannels
      h1  == setUint32(st, RIFF)
      h2  == setUint32(h1, length - 8)
      h3  == setUint32(h2, WAVE)
      h4  == setUint32(h3, FMT)
      h5  == setUint32(h4, 16)
      h6  == setUint16(h5, 1)
      h7  == setUint16(h6, numOfChan)
      h8  == setUint32(h7, buffer.sampleRate)
      h9  == setUint32(h8, buffer.sampleRate * 2 * numOfChan)
      h10 == setUint16(h9, numOfChan * 2)
      h11 == setUint16(h10, 16)
      h12 == setUint32(h11, DATA)
      h13 == setUint32(h12, length - h12.pos - 4)
  IN  h13

\* a faulty WavQuantize: the scale chosen by the sign of the sample
WavQuantizeBySign(x) ==
  LET sample == Max(-One, Min(One, x))
      scaled == IF sample < 0 THEN sample * WavNegScale ELSE sample * WavPosScale
  IN  ToInt32(TruncDiv(scaled, One))

\* sample = Math.max(-1, Math.min(1, x));
\* sample = (0.5 + sample < 0 ? sample * 32768 : sample * 32767) | 0
WavQuantize(x) ==
  LET sample == Max(-One, Min(One, x))
      scaled == IF (One \div 2) + sample < 0
                THEN sample * WavNegScale
                ELSE sample * WavPosScale
  IN  ToInt32(TruncDiv(scaled, One))

\* for (i = 0; i < numOfChan; i++) { ... setInt16(44 + offset, ...); offset += 2 }
RECURSIVE WavFrame(_, _, _)
WavFrame(i, buffer, st) ==
  IF i < buffer.numberOfChannels
  THEN LET sample == WavQuantize(buffer.channels[i + 1][st.pos + 1])
       IN  WavFrame(i + 1, buffer,
                    [st EXCEPT !.view = setInt16(st.view, WavHeaderLength + st.offset,
                                                 sample),
                               !.offset = st.offset + 2])
  ELSE st

\* one test and body of: while (pos < buffer.length) { for ...; pos++ }
\* (pos is the cursor the header writes advanced)
WavStep(buffer, st) ==
  IF st.pos < buffer.length
  THEN LET w == WavFrame(0, buffer, st) IN [w EXCEPT !.pos = st.pos + 1]
  ELSE st

\* the while loop, as k successive steps (a step after the exit changes
\* nothing); split in halves to keep the evaluation shallow
RECURSIVE WavLoop(_, _, _)
WavLoop(k, buffer, st) ==
  IF k = 0 THEN st
  ELSE IF k = 1 THEN WavStep(buffer, st)
  ELSE LET mid == WavLoop(k \div 2, buffer, st)
       IN  IF mid.pos >= 0 THEN WavLoop(k - (k \div 2), buffer, mid) ELSE mid

audioBufferToWav(buffer) ==
  LET numOfChan == buffer.numberOfChannels
      length == buffer.length * numOfChan * 2 + 44
      st0 == [view |-> NewView(length), pos |-> 0, offset |-> 0]
      hdr == WavHeader(buffer, length, st0)
      \* pos grows by one per step, so buffer.length steps reach the exit
      fin == WavLoop(buffer.length, buffer, hdr)
  IN  [type |-> "audio/wav", bytes |-> fin.view, pos |-> hdr.pos]

----------------------------------------------------------------------------
(* audioBufferToMp3 *)

\* The external encoder (lamejs.Mp3Encoder) is a script: what its k-th call
\* (encodeBuffer or flush) does.  A "data" answer of call k is the chunk <<k>>.
EncAnswers == {"throw", "empty", "data"}
EncChunk(script, k) == IF script[k] = "data" THEN <<k>> ELSE <<>>

\* const s = Math.max(-1, Math.min(1, rawData[i]));
\* samples[i] = s < 0 ? s * 0x8000 : s * 0x7FFF     (samples is an Int16Array)
Mp3Quantize(x) ==
  LET s == Max(-One, Min(One, x))
      scaled == IF s < 0 THEN s * Mp3NegScale ELSE s * Mp3PosScale
  IN  ToInt16(TruncDiv(scaled, One))

\* a faulty subarray: the view starts one element late
subarrayShifted(samples, begin, end) ==
  SubSeq(samples, begin + 2, Min(end, Len(samples)))

\* samples.subarray(i, i + blockSize)
subarray(samples, begin, end) ==
  SubSeq(samples, begin + 1, Min(end, Len(samples)))

\* a faulty Mp3Blocks: only full blocks are encoded
RECURSIVE Mp3FullBlocks(_, _, _, _)
Mp3FullBlocks(i, samples, script, st) ==
  IF i + blockSize <= Len(samples)
  THEN LET chunk == subarray(samples, i, i + blockSize)
           k == Len(st.calls)
           called == [st EXCEPT !.calls = Append(st.calls,
                                   [op |-> "encodeBuffer", arg |-> chunk])]
           mp3buf == EncChunk(script, k)
       IN  IF script[k] = "throw"
           THEN [called EXCEPT !.threw = TRUE]
           ELSE Mp3FullBlocks(i + blockSize, samples, script,
                  IF Len(mp3buf) > 0
                  THEN [called EXCEPT !.mp3Data = Append(called.mp3Data, mp3buf)]
                  ELSE called)
  ELSE st

\* for (let i = 0; i < samples.length; i += blockSize) { ... }
\* st: calls = the encoder calls made, mp3Data = the chunks kept, threw
RECURSIVE Mp3Blocks(_, _, _, _)
Mp3Blocks(i, samples, script, st) ==
  IF i < Len(samples)
  THEN LET chunk == subarray(samples, i, i + blockSize)
           k == Len(st.calls)
           called == [st EXCEPT !.calls = Append(st.calls,
                                   [op |-> "encodeBuffer", arg |-> chunk])]
           mp3buf == EncChunk(script, k)
       IN  IF script[k] = "throw"
           THEN [called EXCEPT !.threw = TRUE]
           ELSE Mp3Blocks(i + blockSize, samples, script,
                  IF Len(mp3buf) > 0
                  THEN [called EXCEPT !.mp3Data = Append(called.mp3Data, mp3buf)]
                  ELSE called)
  ELSE st

\* a faulty Mp3Flush: what flush returns is not kept
Mp3FlushDiscarded(script, st) ==
  LET k == Len(st.calls)
      called == [st EXCEPT !.calls = Append(st.calls, [op |-> "flush", arg |-> <<>>])]
  IN  IF script[k] = "throw" THEN [called EXCEPT !.threw = TRUE] ELSE called

\* const mp3buf = mp3encoder.flush(); if (mp3buf.length > 0) mp3Data.push(mp3buf)
Mp3Flush(script, st) ==
  LET k == Len(st.calls)
      called == [st EXCEPT !.calls = Append(st.calls, [op |-> "flush", arg |-> <<>>])]
      mp3buf == EncChunk(script, k)
  IN  IF script[k] = "throw"
      THEN [called EXCEPT !.threw = TRUE]
      ELSE IF Len(mp3buf) > 0
           THEN [called EXCEPT !.mp3Data = Append(called.mp3Data, mp3buf)]
           ELSE called

\* new Blob(parts): the parts' bytes, concatenated in order
RECURSIVE BlobBytes(_)
BlobBytes(parts) ==
  IF parts = <<>> THEN <<>> ELSE Head(parts) \o BlobBytes(Tail(parts))

NoBlob == [type |-> "", bytes |-> <<>>]

UnavailableMessage == "MP3 encoder library (lamejs) not loaded."

\* the function once lamejs is known to be there: the encoder is constructed,
\* fed block by block and flushed; an exception of the encoder leaves it
Mp3Encode(buffer, script) ==
  LET channels == 1
      sampleRate == buffer.sampleRate
      st0 == [calls |-> <<[op |-> "new", arg |-> <<channels, sampleRate, kbps>>]>>,
              mp3Data |-> <<>>, threw |-> FALSE]
      rawData == buffer.channels[1]
      samples == AsSeq([i \in 1..Len(rawData) |-> Mp3Quantize(rawData[i])])
      enc == Mp3Blocks(0, samples, script, st0)
      fin == IF enc.threw THEN enc ELSE Mp3Flush(script, enc)
  IN  IF fin.threw
      THEN [ok |-> FALSE, err |-> "encoder error", blob |-> NoBlob,
            calls |-> fin.calls]
      ELSE [ok |-> TRUE, err |-> "",
            blob |-> [type |-> "audio/mp3", bytes |-> BlobBytes(fin.mp3Data)],
            calls |-> fin.calls]

\* a faulty audioBufferToMp3: lamejs is looked for after the encoding
audioBufferToMp3CheckedLate(buffer, lamejsLoaded, script) ==
  IF lamejsLoaded THEN Mp3Encode(buffer, script)
  ELSE [ok |-> FALSE, err |-> UnavailableMessage, blob |-> NoBlob,
        calls |-> <<[op |-> "new", arg |-> <<1, buffer.sampleRate, kbps>>]>>]

\* if (!lamejs) throw new Error("MP3 encoder library (lamejs) not loaded.")
audioBufferToMp3(buffer, lamejsLoaded, script) ==
  IF ~lamejsLoaded
  THEN [ok |-> FALSE, err |-> UnavailableMessage, blob |-> NoBlob, calls |-> <<>>]
  ELSE Mp3Encode(buffer, script)

----------------------------------------------------------------------------
(* Inputs of the codec harness *)

ByteVals == {0, 127, 128, 255}
\* the PCM of the scenario "AAD/fwAA": samples 0, 32767, 0
ScenarioBytes == <<0, 0, 255, 127, 0, 0>>
RawInputs ==
  UNION {[1..n -> ByteVals] : n \in 0..MaxRawLen}
    \cup {ScenarioBytes, SubSeq(ScenarioBytes, 1, 5)}

\* floats around every threshold of the two quantizers, as multiples of 1/One:
\* -2, -1, just below -1/2, -1/2, -1/4, -1/One, 0, 1/One, 1/2, 1 - 1/One, 1, 2
FloatSeq == <<-2 * One, -One, -(One \div 2) - 1, -(One \div 2), -(One \div 4), -1,
              0, 1, One \div 2, One - 1, One, 2 * One>>
FloatVals == {FloatSeq[i] : i \in 1..Len(FloatSeq)}
StereoVals == {-One, 0, One}

\* frame i of a long buffer: "cycle" walks FloatSeq, "sweep" walks [-2, 2]
LongSample(pattern, i) ==
  IF pattern = "cycle"
  THEN FloatSeq[(i % Len(FloatSeq)) + 1]
  ELSE ((i * 997) % (4 * One + 1)) - 2 * One

LongLens ==
  {WavHeaderLength + d : d \in {-1, 0, 1, 20}}
    \cup {k * blockSize + d : k \in 1..MaxBlocks, d \in {-1, 0, 1}}

MonoBuffer(data, sampleRate) ==
  [numberOfChannels |-> 1, sampleRate |-> sampleRate, length |-> Len(data),
   channels |-> <<data>>]

BufferInputs ==
  \* every short mono buffer
  {MonoBuffer(d, TtsSampleRate) :
     d \in UNION {[1..n -> FloatVals] : n \in 0..MaxFrames}}
  \* short stereo buffers at another rate
  \cup {[numberOfChannels |-> 2, sampleRate |-> 44100, length |-> n,
         channels |-> <<l, r>>] :
          n \in 0..MaxFrames, l \in UNION {[1..m -> StereoVals] : m \in 0..MaxFrames},
          r \in UNION {[1..m -> StereoVals] : m \in 0..MaxFrames}}
  \* long mono buffers
  \cup {MonoBuffer(AsSeq([i \in 1..n |-> LongSample(p, i - 1)]), TtsSampleRate) :
          n \in LongLens, p \in {"cycle", "sweep"}}
  \* stereo buffers a frame or two longer than the WAV header
  \cup {[numberOfChannels |-> 2, sampleRate |-> 44100, length |-> n,
         channels |-> <<AsSeq([i \in 1..n |-> LongSample("cycle", i - 1)]),
                        AsSeq([i \in 1..n |-> LongSample("sweep", i - 1)])>>] :
          n \in {WavHeaderLength + 1, WavHeaderLength + 2}}

ValidBuffer(b) == \A c \in 1..b.numberOfChannels : Len(b.channels[c]) = b.length

CodecInputs ==
  {[kind |-> "pcm", raw |-> r, buffer |-> NoBuffer] : r \in RawInputs}
    \cup {[kind |-> "buffer", raw |-> <<>>, buffer |-> b] :
            b \in {x \in BufferInputs : ValidBuffer(x)}}

\* the encoder is called at most once per block and once to flush
MaxCalls == MaxBlocks + 2
EncScripts == [1..MaxCalls -> EncAnswers]

----------------------------------------------------------------------------
(* The codec harness: each action applies one function of audioUtils.ts;   *)
(* a behaviour converts its input if it is raw PCM, then runs one encoder  *)

NoPcm == [done |-> FALSE, ok |-> FALSE, err |-> "", buffer |-> NoBuffer]
NoWav == [done |-> FALSE, type |-> "", bytes |-> <<>>, pos |-> 0]
NoMp3 == [done |-> FALSE, ok |-> FALSE, err |-> "", blob |-> NoBlob, calls |-> <<>>,
          loaded |-> FALSE, answers |-> <<>>]

\* the SampleBuffer the encoders are given
HaveBuffer == input.kind = "buffer" \/ (pcmRes.done /\ pcmRes.ok)
TheBuffer == IF input.kind = "buffer" THEN input.buffer ELSE pcmRes.buffer

CodecPcm ==
  /\ input.kind = "pcm"
  /\ ~pcmRes.done
  /\ LET r == pcmToAudioBuffer(input.raw, TtsSampleRate)
     IN  pcmRes' = [done |-> TRUE, ok |-> r.ok, err |-> r.err, buffer |-> r.buffer]
  /\ UNCHANGED <<input, wavRes, mp3Res>>

CodecWav ==
  /\ HaveBuffer
  /\ ~wavRes.done /\ ~mp3Res.done
  /\ LET r == audioBufferToWav(TheBuffer)
     IN  wavRes' = [done |-> TRUE, type |-> r.type, bytes |-> r.bytes, pos |-> r.pos]
  /\ UNCHANGED <<input, pcmRes, mp3Res>>

CodecMp3 ==
  /\ HaveBuffer
  /\ ~wavRes.done /\ ~mp3Res.done
  /\ \E loaded \in BOOLEAN, script \in EncScripts :
       LET r == audioBufferToMp3(TheBuffer, loaded, script)
       IN  \* answers: what the encoder answered to the calls made of it
           mp3Res' = [done |-> TRUE, ok |-> r.ok, err |-> r.err, blob |-> r.blob,
                      calls |-> r.calls, loaded |-> loaded,
                      answers |-> SubSeq(script, 1, Len(r.calls) - 1)]
  /\ UNCHANGED <<input, pcmRes, wavRes>>

----------------------------------------------------------------------------
(* generateSpeech *)

MissingKeyMessage == "API Key is missing. Please ensure process.env.API_KEY is available."
NoAudioMessage == "No audio data returned from Gemini."
FallbackMessage == "Failed to generate speech. Please check your API key and try again."

\* const binaryString = window.atob(base64); bytes[i] = binaryString.charCodeAt(i)
\* atob is the platform's: the payload is given by what atob makes of it,
\* an InvalidCharacterError or a binary string
base64ToArrayBuffer(data) ==
  IF ~data.valid
  THEN [ok |-> FALSE, err |-> "InvalidCharacterError", bytes |-> <<>>]
  ELSE [ok |-> TRUE, err |-> "",
        bytes |-> AsSeq([i \in 1..Len(data.binary) |-> data.binary[i] % 256])]

\* resp is how ai.models.generateContent settles: it rejects with an error
\* carrying resp.message, or answers with or without inline audio data
generateSpeech(apiKey, resp) ==
  IF ~apiKey
  THEN [ok |-> FALSE, message |-> MissingKeyMessage, buffer |-> NoBuffer]
  ELSE IF resp.kind = "reject"
  THEN [ok |-> FALSE, message |-> resp.message, buffer |-> NoBuffer]
  ELSE IF ~resp.hasAudio
  THEN [ok |-> FALSE, message |-> NoAudioMessage, buffer |-> NoBuffer]
  ELSE LET arrayBuffer == base64ToArrayBuffer(resp.data)
       IN  IF ~arrayBuffer.ok
           THEN [ok |-> FALSE, message |-> arrayBuffer.err, buffer |-> NoBuffer]
           ELSE LET r == pcmToAudioBuffer(arrayBuffer.bytes, TtsSampleRate)
                IN  [ok |-> r.ok, message |-> r.err, buffer |-> r.buffer]

----------------------------------------------------------------------------
(* The browser objects the App component holds *)

NoUrl == 0
NoAudio == 0
NoError == "null"
NoPreview == [id |-> "", status |-> "none"]
Voices == {"v_boy_7", "v_girl_7"}

\* URL.createObjectURL(blob): the new url is the next index of urls; the
\* registry keeps the blob's type
createObjectURL(us, blob) ==
  Append(us, [type |-> blob.type, revoked |-> FALSE])

\* if (url) URL.revokeObjectURL(url)
revokeObjectURL(us, url) ==
  IF url = NoUrl THEN us ELSE [us EXCEPT ![url].revoked = TRUE]

\* if (previewAudioRef.current) previewAudioRef.current.pause()
pause(as, ref) ==
  IF ref = NoAudio THEN as
  ELSE [as EXCEPT ![ref].state =
          IF @ \in {"pending", "playing"} THEN "paused" ELSE @]

\* the cleanup of the [wavUrl, mp3Url] effect, run by React after a render in
\* which either changed, with the values of the previous render; dom holds
\* urls, audios and previewAudioRef.current
UrlEffectCleanup(oldWav, oldMp3, newWav, newMp3, dom) ==
  IF oldWav = newWav /\ oldMp3 = newMp3 THEN dom
  ELSE [urls |-> revokeObjectURL(revokeObjectURL(dom.urls, oldWav), oldMp3),
        audios |-> pause(dom.audios, dom.ref),
        ref |-> NoAudio]

----------------------------------------------------------------------------
(* How the speech provider may settle a request *)

Payload(valid, binary) == [valid |-> valid, binary |-> binary]
Rejected(message) ==
  [kind |-> "reject", message |-> message, hasAudio |-> FALSE,
   data |-> Payload(FALSE, <<>>)]
Answered(hasAudio, data) ==
  [kind |-> "response", message |-> "", hasAudio |-> hasAudio, data |-> data]

PreviewResponses ==
  {Rejected("quota exceeded"), Answered(TRUE, Payload(TRUE, ScenarioBytes))}

GenResponses ==
  PreviewResponses
    \cup {Rejected(""),                                  \* an error without message
          Answered(FALSE, Payload(TRUE, <<>>)),          \* no inline audio data
          Answered(TRUE, Payload(FALSE, <<>>)),          \* not base64
          Answered(TRUE, Payload(TRUE, <<>>)),           \* decodes to no bytes
          Answered(TRUE, Payload(TRUE, <<0, 0, 255>>))}  \* odd byte count

----------------------------------------------------------------------------
(* handleGenerate *)

NoGen == [phase |-> "idle", run |-> 0, speech |-> "none", failure |-> "",
          wavCalled |-> FALSE, mp3 |-> "none", mp3Calls |-> 0,
          inFlight |-> 0]   \* inFlight: runs awaiting the speech provider

\* a faulty ErrorText: the fixed text whatever the failure
ErrorTextFixed(message) == FallbackMessage

\* err.message || "Failed to generate speech. ..."
ErrorText(message) == IF message = "" THEN FallbackMessage ELSE message

\* a faulty handleGenerateStart: setWavUrl(null) and setMp3Url(null) are left out
handleGenerateStartKeepsUrls ==
  /\ ~isGenerating                  \* the button is disabled while generating
  /\ gen.run < MaxRuns
  /\ LET dom0 == [urls |-> revokeObjectURL(revokeObjectURL(urls, wavUrl), mp3Url),
                  audios |-> pause(audios, previewAudioRef),
                  ref |-> NoAudio]
         dom1 == UrlEffectCleanup(wavUrl, mp3Url, wavUrl, mp3Url, dom0)
         r == generateSpeech(env.apiKey, Rejected(""))
     IN  /\ wavUrl' = wavUrl
         /\ mp3Url' = mp3Url
         /\ previewState' = IF previewAudioRef # NoAudio THEN NoPreview ELSE previewState
         /\ urls' = dom1.urls
         /\ audios' = dom1.audios
         /\ previewAudioRef' = dom1.ref
         /\ IF ~env.apiKey
            THEN /\ error' = ErrorText(r.message)
                 /\ isGenerating' = FALSE
                 /\ gen' = [NoGen EXCEPT !.phase = "done", !.run = gen.run + 1,
                                         !.speech = "failed", !.failure = r.message,
                                         !.inFlight = gen.inFlight]
            ELSE /\ error' = NoError
                 /\ isGenerating' = TRUE
                 /\ gen' = [NoGen EXCEPT !.phase = "awaiting", !.run = gen.run + 1,
                                         !.inFlight = gen.inFlight + 1]
  /\ UNCHANGED <<env, previews>>

\* a faulty handleGenerateStart: the button is not disabled while generating
handleGenerateStartNotDisabled ==
  /\ gen.run < MaxRuns
  /\ LET dom0 == [urls |-> revokeObjectURL(revokeObjectURL(urls, wavUrl), mp3Url),
                  audios |-> pause(audios, previewAudioRef),
                  ref |-> NoAudio]
         dom1 == UrlEffectCleanup(wavUrl, mp3Url, NoUrl, NoUrl, dom0)
         r == generateSpeech(env.apiKey, Rejected(""))
     IN  /\ wavUrl' = NoUrl
         /\ mp3Url' = NoUrl
         /\ previewState' = IF previewAudioRef # NoAudio THEN NoPreview ELSE previewState
         /\ urls' = dom1.urls
         /\ audios' = dom1.audios
         /\ previewAudioRef' = dom1.ref
         /\ IF ~env.apiKey
            THEN /\ error' = ErrorText(r.message)
                 /\ isGenerating' = FALSE
                 /\ gen' = [NoGen EXCEPT !.phase = "done", !.run = gen.run + 1,
                                         !.speech = "failed", !.failure = r.message,
                                         !.inFlight = gen.inFlight]
            ELSE /\ error' = NoError
                 /\ isGenerating' = TRUE
                 /\ gen' = [NoGen EXCEPT !.phase = "awaiting", !.run = gen.run + 1,
                                         !.inFlight = gen.inFlight + 1]
  /\ UNCHANGED <<env, previews>>

\* The click, up to the await of generateSpeech.  Without an API key
\* generateSpeech rejects before it sends anything, and the catch and finally
\* blocks run before any other event.
handleGenerateStart ==
  /\ ~isGenerating                  \* the button is disabled while generating
  /\ gen.run < MaxRuns
  /\ LET dom0 == [urls |-> revokeObjectURL(revokeObjectURL(urls, wavUrl), mp3Url),
                  audios |-> pause(audios, previewAudioRef),
                  ref |-> NoAudio]
         dom1 == UrlEffectCleanup(wavUrl, mp3Url, NoUrl, NoUrl, dom0)
         r == generateSpeech(env.apiKey, Rejected(""))
     IN  /\ wavUrl' = NoUrl
         /\ mp3Url' = NoUrl
         /\ previewState' = IF previewAudioRef # NoAudio THEN NoPreview ELSE previewState
         /\ urls' = dom1.urls
         /\ audios' = dom1.audios
         /\ previewAudioRef' = dom1.ref
         /\ IF ~env.apiKey
            THEN /\ error' = ErrorText(r.message)
                 /\ isGenerating' = FALSE
                 /\ gen' = [NoGen EXCEPT !.phase = "done", !.run = gen.run + 1,
                                         !.speech = "failed", !.failure = r.message,
                                         !.inFlight = gen.inFlight]
            ELSE /\ error' = NoError
                 /\ isGenerating' = TRUE
                 /\ gen' = [NoGen EXCEPT !.phase = "awaiting", !.run = gen.run + 1,
                                         !.inFlight = gen.inFlight + 1]
  /\ UNCHANGED <<env, previews>>

\* a faulty handleGenerateArtifacts: an MP3 failure reaches the outer catch
handleGenerateArtifactsFatal(wavBlob, m) ==
  LET urls1 == createObjectURL(urls, wavBlob)
      urls2 == IF m.ok THEN createObjectURL(urls1, m.blob) ELSE urls1
  IN  [error |-> IF m.ok THEN error ELSE ErrorText(m.err),
       wavUrl |-> Len(urls1),
       mp3Url |-> IF m.ok THEN Len(urls2) ELSE mp3Url,
       urls |-> urls2, wavCalled |-> TRUE,
       mp3 |-> IF m.ok THEN "ok"
               ELSE IF m.calls = <<>> THEN "unavailable" ELSE "threw",
       mp3Calls |-> Len(m.calls)]

\* What the handler leaves once both encoders have run: wavBlob is the WAV
\* artifact, m how audioBufferToMp3 ended (catch (mp3Error): console.warn only)
handleGenerateArtifacts(wavBlob, m) ==
  LET urls1 == createObjectURL(urls, wavBlob)
      urls2 == IF m.ok THEN createObjectURL(urls1, m.blob) ELSE urls1
  IN  [error |-> error, wavUrl |-> Len(urls1),
       mp3Url |-> IF m.ok THEN Len(urls2) ELSE mp3Url,
       urls |-> urls2, wavCalled |-> TRUE,
       mp3 |-> IF m.ok THEN "ok"
               ELSE IF m.calls = <<>> THEN "unavailable" ELSE "threw",
       mp3Calls |-> Len(m.calls)]

\* The handler after `await generateSpeech(...)`: r is how generateSpeech
\* settled, script the answers of the external encoder.  Gives what the try,
\* catch and inner try/catch blocks leave in the state and the URL registry.
handleGenerateRest(r, script) ==
  IF ~r.ok
  THEN \* catch (err): setError(err.message || "...")
       [error |-> ErrorText(r.message), wavUrl |-> wavUrl, mp3Url |-> mp3Url,
        urls |-> urls, wavCalled |-> FALSE, mp3 |-> "none", mp3Calls |-> 0]
  ELSE handleGenerateArtifacts(audioBufferToWav(r.buffer),
                               audioBufferToMp3(r.buffer, env.lamejs, script))

\* The provider settles: the rest of generateSpeech, then the rest of the
\* handler, its finally block and the render that follows it.
handleGenerateSettle ==
  /\ gen.phase = "awaiting"
  /\ \E resp \in GenResponses :
       \E r \in {generateSpeech(env.apiKey, resp)} :
         \* the encoder is only asked when there is a SampleBuffer to encode
         \E script \in IF r.ok THEN EncScripts ELSE {<<>>} :
           \E h \in {handleGenerateRest(r, script)} :
             \E dom \in {UrlEffectCleanup(wavUrl, mp3Url, h.wavUrl, h.mp3Url,
                                          [urls |-> h.urls, audios |-> audios,
                                           ref |-> previewAudioRef])} :
               /\ error' = h.error
               /\ wavUrl' = h.wavUrl
               /\ mp3Url' = h.mp3Url
               /\ urls' = dom.urls
               /\ audios' = dom.audios
               /\ previewAudioRef' = dom.ref
               /\ gen' = [gen EXCEPT !.phase = "done",
                                     !.speech = IF r.ok THEN "ok" ELSE "failed",
                                     !.failure = IF r.ok THEN "" ELSE r.message,
                                     !.wavCalled = h.wavCalled,
                                     !.mp3 = h.mp3,
                                     !.mp3Calls = h.mp3Calls,
                                     !.inFlight = gen.inFlight - 1]
  /\ isGenerating' = FALSE   \* finally
  /\ UNCHANGED <<env, previewState, previews>>

----------------------------------------------------------------------------
(* handlePreviewVoice *)

\* The click on a voice's preview button, up to the await of generateSpeech.
handlePreviewVoiceClick(voice) ==
  /\ previewState.id = voice \/ Len(previews) < MaxPreviews
  /\ audios' = pause(audios, previewAudioRef)
  /\ previewAudioRef' = NoAudio
  /\ IF previewState.id = voice
     THEN \* currently previewing this voice: stop it
          \* (the requests of this voice still in flight are marked stopped:
          \* a record of the click, the handler keeps none)
          /\ previewState' = NoPreview
          /\ previews' = AsSeq([i \in 1..Len(previews) |->
                             IF previews[i].voice = voice /\ previews[i].phase # "done"
                             THEN [previews[i] EXCEPT !.stopped = TRUE]
                             ELSE previews[i]])
     ELSE IF ~env.apiKey
     THEN \* generateSpeech rejects at once; the catch block runs
          /\ previewState' = NoPreview
          /\ previews' = Append(previews, [voice |-> voice, phase |-> "done",
                                           audio |-> NoAudio, stopped |-> FALSE])
     ELSE /\ previewState' = [id |-> voice, status |-> "loading"]
          /\ previews' = Append(previews, [voice |-> voice, phase |-> "speech",
                                           audio |-> NoAudio, stopped |-> FALSE])
  /\ UNCHANGED <<env, isGenerating, wavUrl, mp3Url, error, gen, urls>>

\* The provider settles request i: the rest of generateSpeech, then the
\* handler up to the await of audio.play(), or its catch block.
handlePreviewVoiceSettle(i) ==
  /\ previews[i].phase = "speech"
  /\ \E resp \in PreviewResponses :
       LET r == generateSpeech(env.apiKey, resp)
           wavBlob == audioBufferToWav(r.buffer)
           urls1 == createObjectURL(urls, wavBlob)
           audio == [url |-> Len(urls1), state |-> "pending", run |-> i]
       IN  IF ~r.ok
           THEN /\ previewState' = NoPreview
                /\ previewAudioRef' = NoAudio
                /\ previews' = [previews EXCEPT ![i].phase = "done"]
                /\ UNCHANGED <<urls, audios>>
           ELSE /\ urls' = urls1
                /\ audios' = Append(audios, audio)
                /\ previewAudioRef' = Len(audios) + 1
                /\ previews' = [previews EXCEPT ![i].phase = "play",
                                                ![i].audio = Len(audios) + 1]
                /\ UNCHANGED previewState
  /\ UNCHANGED <<env, isGenerating, wavUrl, mp3Url, error, gen>>

\* audio.play() of request i resolves: playback has started
handlePreviewVoicePlaying(i) ==
  /\ previews[i].phase = "play"
  /\ audios[previews[i].audio].state = "pending"
  /\ audios' = [audios EXCEPT ![previews[i].audio].state = "playing"]
  /\ previewState' = [id |-> previews[i].voice, status |-> "playing"]
  /\ previews' = [previews EXCEPT ![i].phase = "done"]
  /\ UNCHANGED <<env, isGenerating, wavUrl, mp3Url, error, gen, urls,
                 previewAudioRef>>

\* audio.play() of request i rejects (paused meanwhile, not allowed, or a
\* media error): the catch block runs
handlePreviewVoicePlayFailed(i) ==
  /\ previews[i].phase = "play"
  /\ audios' = [audios EXCEPT ![previews[i].audio].state =
                  IF @ = "pending" THEN "paused" ELSE @]
  /\ previewState' = NoPreview
  /\ previewAudioRef' = NoAudio
  /\ previews' = [previews EXCEPT ![i].phase = "done"]
  /\ UNCHANGED <<env, isGenerating, wavUrl, mp3Url, error, gen, urls>>

\* audio.onended
audioEnded(a) ==
  /\ audios[a].state = "playing"
  /\ audios' = [audios EXCEPT ![a].state = "ended"]
  /\ previewState' = NoPreview
  /\ previewAudioRef' = NoAudio
  /\ urls' = revokeObjectURL(urls, audios[a].url)
  /\ UNCHANGED <<env, isGenerating, wavUrl, mp3Url, error, gen, previews>>

\* audio.onerror
audioError(a) ==
  /\ audios[a].state \in {"pending", "playing"}
  /\ audios' = [audios EXCEPT ![a].state = "error"]
  /\ previewState' = NoPreview
  /\ previewAudioRef' = NoAudio
  /\ UNCHANGED <<env, isGenerating, wavUrl, mp3Url, error, gen, previews, urls>>

----------------------------------------------------------------------------
(* Specifications *)

AppStart ==
  /\ isGenerating = FALSE
  /\ wavUrl = NoUrl
  /\ mp3Url = NoUrl
  /\ error = NoError
  /\ previewState = NoPreview
  /\ previewAudioRef = NoAudio
  /\ gen = NoGen
  /\ previews = <<>>
  /\ audios = <<>>
  /\ urls = <<>>

CodecStart ==
  /\ pcmRes = NoPcm
  /\ wavRes = NoWav
  /\ mp3Res = NoMp3

\* the application: the environment is fixed when the page loads
Init ==
  /\ env \in [apiKey : BOOLEAN, lamejs : BOOLEAN]
  /\ AppStart
  /\ input = [kind |-> "none", raw |-> <<>>, buffer |-> NoBuffer]
  /\ CodecStart

Next ==
  \/ handleGenerateStart /\ UNCHANGED codecVars
  \/ handleGenerateSettle /\ UNCHANGED codecVars
  \/ \E v \in Voices : handlePreviewVoiceClick(v) /\ UNCHANGED codecVars
  \/ \E i \in 1..Len(previews) : handlePreviewVoiceSettle(i) /\ UNCHANGED codecVars
  \/ \E i \in 1..Len(previews) : handlePreviewVoicePlaying(i) /\ UNCHANGED codecVars
  \/ \E i \in 1..Len(previews) : handlePreviewVoicePlayFailed(i) /\ UNCHANGED codecVars
  \/ \E a \in 1..Len(audios) : audioEnded(a) /\ UNCHANGED codecVars
  \/ \E a \in 1..Len(audios) : audioError(a) /\ UNCHANGED codecVars

Spec == Init /\ [][Next]_vars

\* the codec functions, each applied to every input of the harness
CodecInit ==
  /\ input \in CodecInputs
  /\ CodecStart
  /\ env = [apiKey |-> TRUE, lamejs |-> TRUE]
  /\ AppStart

CodecNext ==
  \/ CodecPcm /\ UNCHANGED appVars
  \/ CodecWav /\ UNCHANGED appVars
  \/ CodecMp3 /\ UNCHANGED appVars

CodecSpec == CodecInit /\ [][CodecNext]_vars

----------------------------------------------------------------------------
(* Properties of the codec functions (checked under CodecSpec)             *)

\* the SampleBuffer that was encoded: its frame count, and the sample of
\* channel c at frame k (both counted from 0)
Frames == TheBuffer.length
Mono == TheBuffer.numberOfChannels = 1
Sample(c, k) == TheBuffer.channels[c + 1][k + 1]

\* the 16-bit value of the WAV output's sample slot t (slot 0 follows the header)
Stored(t) == Int16At(wavRes.bytes, 44 + 2 * t)

\* the quantization of a sample v, as a multiple of 1/One: clamp to [-1, 1],
\* times 32768 below -1/2 and times 32767 otherwise, truncated toward zero
QuantizationRule(v) ==
  LET c == IF v < -One THEN -One ELSE IF v > One THEN One ELSE v
      p == IF 2 * c < -One THEN c * 32768 ELSE c * 32767
  IN  IF p >= 0 THEN p \div One ELSE -((-p) \div One)

\* C1: for a SampleBuffer of n mono frames, the 16-bit value stored at byte
\* offset 44 + 2k of the WAV output is the quantization of frame k, for every
\* k in 0..n-1 (in order, none skipped)
C1_FramesInOrder ==
  (wavRes.done /\ Mono) =>
     \A k \in 0..(Frames - 1) : Stored(k) = QuantizationRule(Sample(0, k))

\* C2: for a SampleBuffer of n >= 0 mono frames the WAV output has 44 + 2n
\* bytes, bytes 4-7 hold (44 + 2n) - 8 and bytes 40-43 hold 2n
C2_WavSizes ==
  (wavRes.done /\ Mono) =>
     /\ Len(wavRes.bytes) = 44 + 2 * Frames
     /\ Uint32At(wavRes.bytes, 4) = (44 + 2 * Frames) - 8
     /\ Uint32At(wavRes.bytes, 40) = 2 * Frames

C2_Witness ==
  /\ wavRes.done /\ Mono
  /\ Frames = blockSize + 1
  /\ Len(wavRes.bytes) = 2350
  /\ Uint32At(wavRes.bytes, 40) = 2306

\* the calls made of the external encoder, after its construction
EncoderCalls == Tail(mp3Res.calls)
CallCount(op) ==
  Cardinality({k \in 1..Len(EncoderCalls) : EncoderCalls[k].op = op})
CeilDiv(n, d) == (n + d - 1) \div d
\* an encodeBuffer call threw, which ends the function
EncodeThrew ==
  \E k \in 1..Len(EncoderCalls) :
     EncoderCalls[k].op = "encodeBuffer" /\ mp3Res.answers[k] = "throw"

\* C3: audioBufferToMp3 calls encodeBuffer exactly ceil(N/1152) times for N
\* samples and then flush exactly once, in every run that no exception of
\* encodeBuffer ends; in every run flush is called at most once and no call
\* of the encoder follows it
C3_Framing ==
  (mp3Res.done /\ mp3Res.loaded) =>
     /\ ~EncodeThrew =>
          /\ CallCount("encodeBuffer") = CeilDiv(Frames, 1152)
          /\ CallCount("flush") = 1
     /\ \A k \in 1..Len(EncoderCalls) :
          EncoderCalls[k].op = "flush" => k = Len(EncoderCalls)
     /\ \A k \in 1..Len(EncoderCalls) : EncoderCalls[k].op \in {"encodeBuffer", "flush"}

C3_Witness ==
  /\ mp3Res.done /\ mp3Res.ok
  /\ Frames = blockSize + 1
  /\ CallCount("encodeBuffer") = 2
  /\ EncoderCalls[3].op = "flush"

\* the chunks the encoder returned to its first k calls, in call order
RECURSIVE Emitted(_)
Emitted(k) ==
  IF k = 0 THEN <<>> ELSE Emitted(k - 1) \o EncChunk(mp3Res.answers, k)

\* C4: the artifact audioBufferToMp3 returns is the concatenation, in call
\* order, of the non-empty chunks of the encodeBuffer calls and of flush
C4_Concatenation ==
  (mp3Res.done /\ mp3Res.ok) =>
     /\ mp3Res.blob.type = "audio/mp3"
     /\ mp3Res.blob.bytes = Emitted(Len(mp3Res.answers))
     /\ Len(mp3Res.answers) = Len(EncoderCalls)

C4_Witness ==
  /\ mp3Res.done /\ mp3Res.ok
  /\ mp3Res.answers = <<"data", "empty", "data">>
  /\ mp3Res.blob.bytes = <<1, 3>>

\* C6: without lamejs audioBufferToMp3 fails before it constructs an encoder
\* or calls encodeBuffer or flush, and returns no artifact
C6_EncoderUnavailable ==
  (mp3Res.done /\ ~mp3Res.loaded) =>
     /\ ~mp3Res.ok
     /\ mp3Res.err = UnavailableMessage
     /\ mp3Res.calls = <<>>
     /\ mp3Res.blob = NoBlob

C6_Witness ==
  /\ mp3Res.done /\ ~mp3Res.loaded
  /\ Frames = blockSize
  /\ mp3Res.calls = <<>>

\* C7: pcmToAudioBuffer of a byte buffer of odd length raises an error and
\* returns no SampleBuffer
C7_OddLength ==
  (pcmRes.done /\ Len(input.raw) % 2 = 1) =>
     /\ ~pcmRes.ok
     /\ pcmRes.err # ""
     /\ pcmRes.buffer = NoBuffer

C7_Witness ==
  /\ pcmRes.done
  /\ Len(input.raw) = 5
  /\ ~pcmRes.ok

\* sample k of the conversion is s/32768 for the little-endian int16 s at
\* bytes 2k, 2k+1, which lies in [-1, 32767/32768]
PcmSampleExact(k) ==
  LET s == Int16At(input.raw, 2 * k)
      f == pcmRes.buffer.channels[1][k + 1]
  IN  /\ f * 32768 = s * One
      /\ -One <= f /\ f * 32768 <= 32767 * One

\* C8: for every byte buffer of even length L pcmToAudioBuffer yields a mono
\* SampleBuffer of exactly L/2 samples, sample k equal to s/32768
C8_EvenLength ==
  (pcmRes.done /\ Len(input.raw) % 2 = 0) =>
     /\ pcmRes.ok
     /\ pcmRes.buffer.numberOfChannels = 1
     /\ pcmRes.buffer.length = Len(input.raw) \div 2
     /\ Len(pcmRes.buffer.channels[1]) = Len(input.raw) \div 2
     /\ \A k \in 0..((Len(input.raw) \div 2) - 1) : PcmSampleExact(k)

\* the frame the while loop read for sample slot t, and its channel
SlotFrame(t) == 44 + (t \div TheBuffer.numberOfChannels)
SlotChannel(t) == t % TheBuffer.numberOfChannels
\* the sample slots the loop wrote
WrittenSlots ==
  {t \in 0..(Frames * TheBuffer.numberOfChannels - 1) : SlotFrame(t) < Frames}

\* C10: every 16-bit sample audioBufferToWav writes is the sample it read,
\* clamped to [-1, 1], times 32768 if below -1/2 and times 32767 otherwise,
\* truncated toward zero; it lies in [-32768, 32767] whatever the input
C10_Quantization ==
  wavRes.done =>
     \A t \in WrittenSlots :
        LET q == QuantizationRule(Sample(SlotChannel(t), SlotFrame(t)))
        IN  /\ Stored(t) = q
            /\ -32768 <= q /\ q <= 32767

\* a sample of [-1/2, 0) was written, times 32767
C10_Witness ==
  /\ wavRes.done
  /\ \E t \in WrittenSlots :
        /\ Sample(SlotChannel(t), SlotFrame(t)) = -(One \div 2)
        /\ Stored(t) = -16383
  /\ \E t \in WrittenSlots :
        /\ Sample(SlotChannel(t), SlotFrame(t)) = 2 * One
        /\ Stored(t) = 32767

----------------------------------------------------------------------------
(* Properties of handleGenerate (checked under Spec)                       *)

\* the last run of handleGenerate has finished, after generateSpeech
\* succeeded or failed
GenerateDone == gen.phase = "done" /\ gen.speech = "ok"
GenerateFailed == gen.phase = "done" /\ gen.speech = "failed"

\* C5: once speech generation and WAV encoding have succeeded, a failure of
\* audioBufferToMp3 (lamejs missing, or the encoder throwing at a block or at
\* flush) leaves wavUrl set to the WAV artifact, mp3Url null, error null and
\* isGenerating false
C5_Mp3FailureNonFatal ==
  (GenerateDone /\ gen.mp3 \in {"unavailable", "threw"}) =>
     /\ gen.wavCalled
     /\ wavUrl # NoUrl
     /\ urls[wavUrl].type = "audio/wav" /\ ~urls[wavUrl].revoked
     /\ mp3Url = NoUrl
     /\ error = NoError
     /\ ~isGenerating

\* the encoder threw at flush, after one block
C5_Witness ==
  /\ GenerateDone
  /\ gen.mp3 = "threw" /\ gen.mp3Calls = 3
  /\ wavUrl # NoUrl /\ mp3Url = NoUrl /\ error = NoError

\* what a failed run leaves apart from the error text: no encoder was
\* called and no artifact is offered
NothingEncoded ==
  /\ ~gen.wavCalled
  /\ gen.mp3 = "none" /\ gen.mp3Calls = 0
  /\ wavUrl = NoUrl /\ mp3Url = NoUrl

\* C9 (as stated): if generateSpeech fails at any step, neither encoder is
\* called, wavUrl and mp3Url are null when the handler finishes, and error
\* holds the underlying failure message
C9_FailureMessage ==
  GenerateFailed => (NothingEncoded /\ error = gen.failure)

\* C9 (amended): if generateSpeech fails at any step, neither encoder is
\* called, wavUrl and mp3Url are null when the handler finishes, and error
\* holds the underlying failure message, or the fixed text "Failed to
\* generate speech. ..." when that message is empty
C9_FailureMessageOrFallback ==
  GenerateFailed =>
     /\ NothingEncoded
     /\ error = (IF gen.failure = "" THEN FallbackMessage ELSE gen.failure)

\* the PCM conversion failed on an odd byte count
C9_Witness ==
  /\ GenerateFailed
  /\ gen.failure = "RangeError"
  /\ error = "RangeError"
  /\ ~isGenerating

----------------------------------------------------------------------------
(* Further properties of the codec functions (checked under CodecSpec)     *)

\* C11: for a SampleBuffer of c channels at sample rate r, the WAV header
\* holds format tag 1 at bytes 20-21, c at bytes 22-23, r at bytes 24-27,
\* r*2*c at bytes 28-31, c*2 at bytes 32-33 and 16 at bytes 34-35, each
\* little-endian, and the header cursor is 44 after the last header field
C11_HeaderFields ==
  wavRes.done =>
     /\ Uint16At(wavRes.bytes, 20) = 1
     /\ Uint16At(wavRes.bytes, 22) = TheBuffer.numberOfChannels
     /\ Uint32At(wavRes.bytes, 24) = TheBuffer.sampleRate
     /\ Uint32At(wavRes.bytes, 28) =
          TheBuffer.sampleRate * 2 * TheBuffer.numberOfChannels
     /\ Uint16At(wavRes.bytes, 32) = TheBuffer.numberOfChannels * 2
     /\ Uint16At(wavRes.bytes, 34) = 16
     /\ wavRes.pos = 44

\* a stereo buffer at 44100 Hz was encoded
C11_Witness ==
  /\ wavRes.done
  /\ TheBuffer.numberOfChannels = 2 /\ TheBuffer.sampleRate = 44100
  /\ Uint32At(wavRes.bytes, 28) = 176400
  /\ Uint16At(wavRes.bytes, 32) = 4
  /\ wavRes.pos = 44

\* the Int16Array audioBufferToMp3 fills from channel 0 before it frames it
QuantizedSamples ==
  AsSeq([i \in 1..Frames |-> Mp3Quantize(Sample(0, i - 1))])

\* the encodeBuffer calls, in call order, and the samples they were given
EncodeCalls == {k \in 1..Len(EncoderCalls) : EncoderCalls[k].op = "encodeBuffer"}
RECURSIVE BlocksUpTo(_)
BlocksUpTo(k) ==
  IF k = 0 THEN <<>>
  ELSE BlocksUpTo(k - 1)
         \o (IF k \in EncodeCalls THEN EncoderCalls[k].arg ELSE <<>>)

\* C12: the j-th encodeBuffer call (j from 0) receives exactly the quantized
\* samples at indices 1152*j .. min(1152*(j+1), N) - 1, in order: every block
\* has 1152 samples except possibly the last, no block is empty, and in a run
\* that no exception ends the blocks concatenated give the whole sequence
C12_BlocksPartition ==
  (mp3Res.done /\ mp3Res.loaded) =>
     /\ \A k \in EncodeCalls :
          LET j == k - 1
              last == IF 1152 * (j + 1) < Frames THEN 1152 * (j + 1) ELSE Frames
          IN  /\ EncoderCalls[k].arg = SubSeq(QuantizedSamples, 1152 * j + 1, last)
              /\ Len(EncoderCalls[k].arg) > 0
              /\ Len(EncoderCalls[k].arg) <= 1152
              /\ (1152 * (j + 1) <= Frames) => Len(EncoderCalls[k].arg) = 1152
              /\ \A i \in 1..(k - 1) : i \in EncodeCalls
     /\ ~EncodeThrew => BlocksUpTo(Len(EncoderCalls)) = QuantizedSamples

\* a full block and a last block of one sample were encoded
C12_Witness ==
  /\ mp3Res.done /\ mp3Res.ok
  /\ Frames = blockSize + 1
  /\ Len(EncoderCalls[1].arg) = 1152
  /\ EncoderCalls[2].op = "encodeBuffer"
  /\ EncoderCalls[2].arg = <<QuantizedSamples[1153]>>

----------------------------------------------------------------------------
(* Properties of handlePreviewVoice (checked under Spec)                   *)

\* the preview Audio elements that are playing
PlayingAudios == {a \in 1..Len(audios) : audios[a].state = "playing"}

\* C13: under any interleaving of preview clicks and preview-request
\* completions at most one preview audio element is playing at any time
C13_OnePreviewPlaying == Cardinality(PlayingAudios) <= 1

\* the preview requests the user stopped while they were loading (a click
\* on the preview button of their voice, before their audio was playing)
StoppedPreviews == {i \in 1..Len(previews) : previews[i].stopped}
PreviewIsPlaying(i) ==
  /\ previews[i].audio # NoAudio
  /\ audios[previews[i].audio].state = "playing"

\* C14: after the user stops the preview of the voice being previewed, no
\* audio of that preview request starts playing (and with it previewState is
\* not set back to that voice by that request)
C14_StoppedPreviewStaysStopped ==
  \A i \in StoppedPreviews : ~PreviewIsPlaying(i)

----------------------------------------------------------------------------
(* Further properties of handleGenerate (checked under Spec)               *)

\* C15: in every state mp3Url non-null implies wavUrl non-null, the two are
\* the WAV and the MP3 of the same, finished, generation, and both are null
\* from the start of a generation until its WAV artifact has been produced
C15_ArtifactsOfOneRun ==
  /\ mp3Url # NoUrl => wavUrl # NoUrl
  /\ (isGenerating \/ gen.phase = "awaiting") => (wavUrl = NoUrl /\ mp3Url = NoUrl)
  /\ wavUrl # NoUrl => (GenerateDone /\ urls[wavUrl].type = "audio/wav")
  /\ mp3Url # NoUrl => (mp3Url = wavUrl + 1 /\ urls[mp3Url].type = "audio/mp3")

\* a second generation is in progress, after one that offered WAV and MP3
C15_Witness ==
  /\ gen.run = 2 /\ gen.phase = "awaiting" /\ isGenerating
  /\ wavUrl = NoUrl /\ mp3Url = NoUrl
  /\ \E u \in 1..Len(urls) : urls[u].type = "audio/mp3" /\ urls[u].revoked

\* C16: at most one handleGenerate run is in flight at a time, and a run
\* whose request has settled has set isGenerating back to false, with
\* exactly one of wavUrl non-null (a WAV artifact) or error non-null
C16_OneRunThenIdle ==
  /\ gen.inFlight <= 1
  /\ isGenerating <=> gen.phase = "awaiting"
  /\ isGenerating <=> gen.inFlight = 1
  /\ gen.phase = "done" =>
       /\ ~isGenerating
       /\ (wavUrl # NoUrl) # (error # NoError)
  /\ GenerateDone => (wavUrl # NoUrl /\ error = NoError)
  /\ GenerateFailed => (wavUrl = NoUrl /\ error # NoError)

\* a second run ended with an error, after its request settled without audio
C16_Witness ==
  /\ gen.run = 2 /\ GenerateFailed
  /\ gen.failure = NoAudioMessage /\ error = NoAudioMessage
  /\ ~isGenerating /\ gen.inFlight = 0

====
